---- MODULE Spec2Model ----
(***************************************************************************)
(* Revision and diff engine of the EthAppList backend.                     *)
(*                                                                         *)
(* The database tables (products, product_revisions,                       *)
(* product_field_changes, pending_edits) are the state.  Every request is  *)
(* served on its own goroutine; a request is a sequence of SQL statements  *)
(* and each statement is one step.  PostgreSQL runs at READ COMMITTED:     *)
(* a SELECT sees what is committed when it runs, and the writes of a       *)
(* transaction become visible together at COMMIT, so the writes of one     *)
(* transaction and its COMMIT are one step, taken at the commit point.     *)
(*                                                                         *)
(* Scores are float64 in Go; they are kept here in thousandths (504 is     *)
(* 0.504).  Go strings are TLA+ strings.                                   *)
(***************************************************************************)
EXTENDS Integers, Sequences, FiniteSets, TLC

\* ------------------------------------------------------------------ bounds

\* Requests started in one behaviour.
MaxCalls == 3
\* Highest revision number a caller asks to revert to.
MaxRevertTarget == 2

\* ------------------------------------------------------------- Go values

\* A nil *string (editor_id NULL).
NoEditor == "<nil>"

\* []string: nil and the empty slice are different values in Go.
NilSlice == [isNil |-> TRUE, items |-> <<>>]
Slice(s) == [isNil |-> FALSE, items |-> s]

Digit(d) ==
    CASE d = 0 -> "0" [] d = 1 -> "1" [] d = 2 -> "2" [] d = 3 -> "3"
      [] d = 4 -> "4" [] d = 5 -> "5" [] d = 6 -> "6" [] d = 7 -> "7"
      [] d = 8 -> "8" [] d = 9 -> "9"

RECURSIVE IntStr(_)
\* fmt.Sprintf("%d", n) for n >= 0
IntStr(n) == IF n < 10 THEN Digit(n) ELSE IntStr(n \div 10) \o Digit(n % 10)

\* The value of x (thousandths) rounded to hundredths.
Round2(x) == (x + 5) \div 10

\* fmt.Sprintf("%.2f", x)
Fmt2(x) ==
    LET h == Round2(x)
    IN  IntStr(h \div 100) \o "." \o Digit((h \div 10) % 10) \o Digit(h % 10)

\* fmt.Sprintf("%t", b)
FmtBool(b) == IF b THEN "true" ELSE "false"

RECURSIVE JoinQuoted(_)
JoinQuoted(s) ==
    IF s = <<>> THEN ""
    ELSE "\"" \o Head(s) \o "\"" \o
         (IF Len(s) > 1 THEN "," ELSE "") \o JoinQuoted(Tail(s))

\* string(json.Marshal(list)) for a []string
MarshalList(l) == IF l.isNil THEN "null" ELSE "[" \o JoinQuoted(l.items) \o "]"

\* ------------------------------------------------------------ the product

\* models.Product, the fields the revision engine reads or writes.
Product(id, title, short, sec, approved, verified, list) ==
    [ ID |-> id, Title |-> title, ShortDesc |-> short, LongDesc |-> "",
      LogoURL |-> "", MarkdownContent |-> "", SubmitterID |-> "",
      Approved |-> approved, IsVerified |-> verified, AnalyticsList |-> list,
      SecurityScore |-> sec, UXScore |-> 500, DecentScore |-> 500,
      VibesScore |-> 500, CurrentRevisionNumber |-> 0,
      LastEditorID |-> NoEditor ]

\* models.ProductFieldChange
FieldChange(field, old, new, type) ==
    [FieldName |-> field, OldValue |-> old, NewValue |-> new, ChangeType |-> type]

\* ------------------------------------------------------- the diff engines

\* A mutant: addChange without its "removed" branch.
addChangeNoRemoved(field, oldVal, newVal) ==
    IF oldVal # newVal
    THEN << FieldChange(field, oldVal, newVal,
              IF oldVal = "" THEN "added" ELSE "modified") >>
    ELSE <<>>

\* addChange of calculateProductDifferences, as the changes it appends.
addChange(field, oldVal, newVal) ==
    IF oldVal # newVal
    THEN << FieldChange(field, oldVal, newVal,
              IF oldVal = "" THEN "added"
              ELSE IF newVal = "" THEN "removed" ELSE "modified") >>
    ELSE <<>>

\* A mutant: the removals reported after the other changes.
calculateProductDifferencesRemovalsLast(from, to) ==
    LET all ==
             addChange("title", from.Title, to.Title)
          \o addChange("short_desc", from.ShortDesc, to.ShortDesc)
          \o addChange("long_desc", from.LongDesc, to.LongDesc)
          \o addChange("logo_url", from.LogoURL, to.LogoURL)
          \o addChange("markdown_content", from.MarkdownContent, to.MarkdownContent)
          \o addChange("security_score", Fmt2(from.SecurityScore), Fmt2(to.SecurityScore))
          \o addChange("ux_score", Fmt2(from.UXScore), Fmt2(to.UXScore))
          \o addChange("decent_score", Fmt2(from.DecentScore), Fmt2(to.DecentScore))
          \o addChange("vibes_score", Fmt2(from.VibesScore), Fmt2(to.VibesScore))
          \o addChange("is_verified", FmtBool(from.IsVerified), FmtBool(to.IsVerified))
          \o addChange("approved", FmtBool(from.Approved), FmtBool(to.Approved))
          \o addChange("analytics_list", MarshalList(from.AnalyticsList),
                                         MarshalList(to.AnalyticsList))
    IN  SelectSeq(all, LAMBDA c : c.ChangeType # "removed")
          \o SelectSeq(all, LAMBDA c : c.ChangeType = "removed")

calculateProductDifferences(from, to) ==
       addChange("title", from.Title, to.Title)
    \o addChange("short_desc", from.ShortDesc, to.ShortDesc)
    \o addChange("long_desc", from.LongDesc, to.LongDesc)
    \o addChange("logo_url", from.LogoURL, to.LogoURL)
    \o addChange("markdown_content", from.MarkdownContent, to.MarkdownContent)
    \o addChange("security_score", Fmt2(from.SecurityScore), Fmt2(to.SecurityScore))
    \o addChange("ux_score", Fmt2(from.UXScore), Fmt2(to.UXScore))
    \o addChange("decent_score", Fmt2(from.DecentScore), Fmt2(to.DecentScore))
    \o addChange("vibes_score", Fmt2(from.VibesScore), Fmt2(to.VibesScore))
    \o addChange("is_verified", FmtBool(from.IsVerified), FmtBool(to.IsVerified))
    \o addChange("approved", FmtBool(from.Approved), FmtBool(to.Approved))
    \o addChange("analytics_list", MarshalList(from.AnalyticsList),
                                   MarshalList(to.AnalyticsList))

\* One "if old != new { append }" block of calculateProductChanges.
svcChange(field, differ, old, new) ==
    IF differ THEN << FieldChange(field, old, new, "modified") >> ELSE <<>>

calculateProductChanges(oldProduct, newProduct) ==
       svcChange("title", oldProduct.Title # newProduct.Title,
                 oldProduct.Title, newProduct.Title)
    \o svcChange("short_desc", oldProduct.ShortDesc # newProduct.ShortDesc,
                 oldProduct.ShortDesc, newProduct.ShortDesc)
    \o svcChange("long_desc", oldProduct.LongDesc # newProduct.LongDesc,
                 oldProduct.LongDesc, newProduct.LongDesc)
    \o svcChange("logo_url", oldProduct.LogoURL # newProduct.LogoURL,
                 oldProduct.LogoURL, newProduct.LogoURL)
    \o svcChange("markdown_content",
                 oldProduct.MarkdownContent # newProduct.MarkdownContent,
                 oldProduct.MarkdownContent, newProduct.MarkdownContent)
    \o svcChange("security_score",
                 oldProduct.SecurityScore # newProduct.SecurityScore,
                 Fmt2(oldProduct.SecurityScore), Fmt2(newProduct.SecurityScore))
    \o svcChange("ux_score", oldProduct.UXScore # newProduct.UXScore,
                 Fmt2(oldProduct.UXScore), Fmt2(newProduct.UXScore))
    \o svcChange("decent_score", oldProduct.DecentScore # newProduct.DecentScore,
                 Fmt2(oldProduct.DecentScore), Fmt2(newProduct.DecentScore))
    \o svcChange("vibes_score", oldProduct.VibesScore # newProduct.VibesScore,
                 Fmt2(oldProduct.VibesScore), Fmt2(newProduct.VibesScore))

\* ------------------------------------------------------------------ JSON

\* json.Marshal(product): the product_data column of a revision, and the
\* change_data column of a pending edit.
JSONMarshal(p) ==
    [ id |-> p.ID, title |-> p.Title, short_desc |-> p.ShortDesc,
      long_desc |-> p.LongDesc, logo_url |-> p.LogoURL,
      markdown_content |-> p.MarkdownContent, submitter_id |-> p.SubmitterID,
      approved |-> p.Approved, is_verified |-> p.IsVerified,
      analytics_list |-> p.AnalyticsList,
      security_score |-> p.SecurityScore, ux_score |-> p.UXScore,
      decent_score |-> p.DecentScore, vibes_score |-> p.VibesScore,
      current_revision_number |-> p.CurrentRevisionNumber,
      last_editor_id |-> p.LastEditorID ]

\* A mutant: json.Unmarshal that leaves Approved at its zero value.
JSONUnmarshalDropsApproved(j) ==
    [ ID |-> j.id, Title |-> j.title, ShortDesc |-> j.short_desc,
      LongDesc |-> j.long_desc, LogoURL |-> j.logo_url,
      MarkdownContent |-> j.markdown_content, SubmitterID |-> j.submitter_id,
      Approved |-> FALSE, IsVerified |-> j.is_verified,
      AnalyticsList |-> j.analytics_list,
      SecurityScore |-> j.security_score, UXScore |-> j.ux_score,
      DecentScore |-> j.decent_score, VibesScore |-> j.vibes_score,
      CurrentRevisionNumber |-> j.current_revision_number,
      LastEditorID |-> j.last_editor_id ]

\* json.Unmarshal(data, &product) into a zero models.Product
JSONUnmarshal(j) ==
    [ ID |-> j.id, Title |-> j.title, ShortDesc |-> j.short_desc,
      LongDesc |-> j.long_desc, LogoURL |-> j.logo_url,
      MarkdownContent |-> j.markdown_content, SubmitterID |-> j.submitter_id,
      Approved |-> j.approved, IsVerified |-> j.is_verified,
      AnalyticsList |-> j.analytics_list,
      SecurityScore |-> j.security_score, UXScore |-> j.ux_score,
      DecentScore |-> j.decent_score, VibesScore |-> j.vibes_score,
      CurrentRevisionNumber |-> j.current_revision_number,
      LastEditorID |-> j.last_editor_id ]

\* ------------------------------------------------------------ the inputs

ProductIDs == {"p1", "p2"}

\* The goroutines that serve requests, and the user each one serves.
Procs == {"t1", "t2"}
UserOf(p) == IF p = "t1" THEN "u1" ELSE "u2"

\* Request bodies (the product of a submit or update request; its id comes
\* from the URL or the caller).
PA == Product("", "A", "s", 500, FALSE, FALSE, NilSlice)
PB == Product("", "B", "", 504, TRUE, FALSE, NilSlice)
PC == Product("", "A", "s", 504, FALSE, TRUE, Slice(<<"x">>))
Payloads == {PA, PB, PC}

EditSummaries == {"rename"}
\* The edit_summary values a request body may carry.
RequestSummaries == EditSummaries \cup {""}
RevertReasons == {"oops"}

\* The rows the moderation gate has put in pending_edits (nothing in this
\* repository inserts one).
EditCatalog ==
    [ e1 |-> [ id |-> "e1", user_id |-> "u2", entity_type |-> "product",
               entity_id |-> "p1", change_type |-> "update",
               change_data |-> JSONMarshal(PB), status |-> "pending" ],
      e2 |-> [ id |-> "e2", user_id |-> "u1", entity_type |-> "product",
               entity_id |-> "p2", change_type |-> "create",
               change_data |-> JSONMarshal(PC), status |-> "pending" ] ]
EditIDs == DOMAIN EditCatalog

\* ------------------------------------------------------------- the state

VARIABLES
    products,               \* table products: id -> row (a models.Product)
    product_revisions,      \* table product_revisions: a set of rows
    product_field_changes,  \* table product_field_changes: a set of rows
    pending_edits,          \* table pending_edits: id -> row
    pc,                     \* where each goroutine is in its request
    local,                  \* the local variables of the request it serves
    response,               \* what the request that returned in the last step returned
    openTx,                 \* transactions begun, not committed or rolled back
    calls,                  \* requests started so far
    diffIn,                 \* two products handed to the diff engines
    diffOut,                \* what the diff engines returned for them
    upvotes                 \* table upvotes: a set of rows

vars == << products, product_revisions, product_field_changes, pending_edits,
           pc, local, response, openTx, calls, diffIn, diffOut, upvotes >>

diff == << diffIn, diffOut >>

db == << products, product_revisions, product_field_changes, pending_edits >>

NoLocal == [op |-> "none"]
\* A response: the goroutine, the operation, the product or edit it was
\* about, the error returned ("" is nil) and whether the request had
\* committed a write when it returned.
NoResponse == [op |-> "none"]
Response(p, op, key, err, wrote) ==
    [proc |-> p, op |-> op, key |-> key, err |-> err, wrote |-> wrote]

NoDiff == [op |-> "none"]

Init ==
    /\ products = << >>
    /\ product_revisions = {}
    /\ product_field_changes = {}
    /\ pending_edits = EditCatalog
    /\ pc = [p \in Procs |-> "idle"]
    /\ local = [p \in Procs |-> NoLocal]
    /\ response = NoResponse
    /\ openTx = 0
    /\ calls = 0
    /\ diffIn = << PA, PA >>
    /\ diffOut = NoDiff
    /\ upvotes = {}

\* ------------------------------------------------------------ SQL pieces

\* A DECIMAL(3,2) column keeps two decimals.
Decimal32(x) == Round2(x) * 10

\* The revisions of product pid, and the one numbered n.
RevisionsOf(revs, pid) == {r \in revs : r.product_id = pid}
\* A mutant: the revision looked up by its number alone.
RevisionAtAnyProduct(revs, pid, n) == {r \in revs : r.revision_number = n}

RevisionAt(revs, pid, n) == {r \in revs : r.product_id = pid /\ r.revision_number = n}

\* A mutant: no UNIQUE constraint on product_revisions.
RevisionKeyFreeAlways(revs, pid, n) == TRUE

\* UNIQUE(product_id, revision_number): may a row with this key be inserted?
RevisionKeyFree(revs, pid, n) == RevisionAt(revs, pid, n) = {}

\* The rows createProductRevisionTx inserts: the revision ...
RevisionRow(pid, n, editorID, editSummary, productData) ==
    [ product_id |-> pid, revision_number |-> n, editor_id |-> editorID,
      edit_summary |-> editSummary, product_data |-> JSONMarshal(productData) ]

\* A mutant: the field changes inserted under the preceding revision.
FieldChangeRowsOnPrevious(pid, n, changes) ==
    { [ revision_id |-> <<pid, n - 1>>, field_name |-> changes[i].FieldName,
        old_value |-> changes[i].OldValue, new_value |-> changes[i].NewValue,
        change_type |-> changes[i].ChangeType ] : i \in 1..Len(changes) }

\* ... and one product_field_changes row per change (revision_id is the key
\* of the revision row: generateID gives every revision its own id).
FieldChangeRows(pid, n, changes) ==
    { [ revision_id |-> <<pid, n>>, field_name |-> changes[i].FieldName,
        old_value |-> changes[i].OldValue, new_value |-> changes[i].NewValue,
        change_type |-> changes[i].ChangeType ] : i \in 1..Len(changes) }

\* A mutant: the inserted row keeps current_revision_number 0.
InsertedProductRowUnnumbered(product) ==
    [ product EXCEPT !.SecurityScore = Decimal32(@), !.UXScore = Decimal32(@),
                     !.DecentScore = Decimal32(@), !.VibesScore = Decimal32(@),
                     !.LastEditorID = product.SubmitterID,
                     !.CurrentRevisionNumber = 0 ]

\* INSERT INTO products ... RETURNING ... of CreateProduct
InsertedProductRow(product) ==
    [ product EXCEPT !.SecurityScore = Decimal32(@), !.UXScore = Decimal32(@),
                     !.DecentScore = Decimal32(@), !.VibesScore = Decimal32(@),
                     !.LastEditorID = product.SubmitterID ]

\* UPDATE products SET ... of CreateProductRevision (approved is not set)
RevisionUpdatedRow(row, np, newRevision, editorID) ==
    [ row EXCEPT !.Title = np.Title, !.ShortDesc = np.ShortDesc,
                 !.LongDesc = np.LongDesc, !.LogoURL = np.LogoURL,
                 !.MarkdownContent = np.MarkdownContent,
                 !.IsVerified = np.IsVerified,
                 !.AnalyticsList = np.AnalyticsList,
                 !.SecurityScore = Decimal32(np.SecurityScore),
                 !.UXScore = Decimal32(np.UXScore),
                 !.DecentScore = Decimal32(np.DecentScore),
                 !.VibesScore = Decimal32(np.VibesScore),
                 !.CurrentRevisionNumber = newRevision,
                 !.LastEditorID = editorID ]

\* UPDATE products SET ... of repository UpdateProduct (approved is set)
DirectUpdatedRow(row, product) ==
    [ RevisionUpdatedRow(row, product, product.CurrentRevisionNumber,
                         product.LastEditorID)
      EXCEPT !.Approved = product.Approved ]

\* UPDATE products SET ..., approved = true of ApproveEdit
ApprovedUpdatedRow(row, np, userID) ==
    [ RevisionUpdatedRow(row, np, np.CurrentRevisionNumber, userID)
      EXCEPT !.Approved = TRUE ]

\* A mutant: an UPDATE with no WHERE clause, which sets every row.
SetEveryRow(tbl, id, row) == [k \in DOMAIN tbl \cup {id} |-> row]
\* The table with row id inserted or updated.
SetRow(tbl, id, row) ==
    [k \in DOMAIN tbl \cup {id} |-> IF k = id THEN row ELSE tbl[k]]

\* ------------------------------------------------------- request plumbing

\* A request begins on an idle goroutine.
CanStart(p) == pc[p] = "idle" /\ calls < MaxCalls

\* The request of p returns.
Return(p, op, key, err, wrote) ==
    /\ pc' = [pc EXCEPT ![p] = "idle"]
    /\ local' = [local EXCEPT ![p] = NoLocal]
    /\ response' = Response(p, op, key, err, wrote)

\* The request of p goes on to its next statement.
Goto(p, label, l) ==
    /\ pc' = [pc EXCEPT ![p] = label]
    /\ local' = [local EXCEPT ![p] = l]
    /\ response' = NoResponse

\* --------------------------------------------------------- CreateProduct

\* A mutant: CreateProduct that replaces a product stored under the id.
CreateProductOverwrites(p, id, payload) ==
    /\ UNCHANGED << diff, upvotes >>
    /\ CanStart(p)
    /\ calls' = calls + 1
    /\ LET product == [payload EXCEPT !.ID = id, !.SubmitterID = UserOf(p),
                                      !.CurrentRevisionNumber = 1]
           row == InsertedProductRow(product)
       IN  /\ products' = SetRow(products, id, row)
           /\ product_revisions' =
                  {r \in product_revisions :
                     ~(r.product_id = id /\ r.revision_number = 1)}
                  \cup { RevisionRow(id, 1, row.SubmitterID,
                                     "Initial product version", row) }
           /\ Return(p, "CreateProduct", id, "", TRUE)
           /\ UNCHANGED << product_field_changes, pending_edits, openTx >>

\* Handler.SubmitProduct -> Service.SubmitProduct -> CreateProduct: one
\* transaction that inserts the product row and revision 1.
CreateProduct(p, id, payload) ==
    /\ UNCHANGED << diff, upvotes >>
    /\ CanStart(p)
    /\ calls' = calls + 1
    /\ LET product == [payload EXCEPT !.ID = id, !.SubmitterID = UserOf(p),
                                      !.CurrentRevisionNumber = 1]
           row == InsertedProductRow(product)
       IN  IF id \in DOMAIN products
           THEN /\ Return(p, "CreateProduct", id, "failed to create product", FALSE)
                /\ UNCHANGED << db, openTx >>
           ELSE IF ~RevisionKeyFree(product_revisions, id, 1)
           THEN /\ Return(p, "CreateProduct", id, "failed to create initial revision", FALSE)
                /\ UNCHANGED << db, openTx >>
           ELSE /\ products' = SetRow(products, id, row)
                /\ product_revisions' = product_revisions \cup
                       { RevisionRow(id, 1, row.SubmitterID,
                                     "Initial product version", row) }
                /\ Return(p, "CreateProduct", id, "", TRUE)
                /\ UNCHANGED << product_field_changes, pending_edits, openTx >>

\* ------------------------------------------------- Service.UpdateProduct

\* A mutant: any edit summary passes the handler.
ValidEditSummaryAny(editSummary) == TRUE

\* Handler.UpdateProduct: "Validate edit summary is provided".
ValidEditSummary(editSummary) == editSummary # ""

\* A mutant: an update of an unknown product inserts a row for it before
\* it reports the product missing.
UpdateProductGetInsertsRow(p, id, payload, editSummary) ==
    /\ UNCHANGED << diff, upvotes >>
    /\ CanStart(p)
    /\ calls' = calls + 1
    /\ products' = IF id \in DOMAIN products THEN products
                   ELSE SetRow(products, id, InsertedProductRow([payload EXCEPT !.ID = id]))
    /\ UNCHANGED << product_revisions, product_field_changes, pending_edits, openTx >>
    /\ Return(p, "UpdateProduct", id, "product not found", FALSE)

\* Handler.UpdateProduct's validation, then Service.UpdateProduct up to its
\* call of CreateProductRevision: GetProductByID and calculateProductChanges.
UpdateProductGet(p, id, payload, editSummary) ==
    /\ UNCHANGED << diff, upvotes >>
    /\ CanStart(p)
    /\ calls' = calls + 1
    /\ UNCHANGED << db, openTx >>
    /\ IF ~ValidEditSummary(editSummary)
       THEN Return(p, "UpdateProduct", id, "Edit summary is required", FALSE)
       ELSE IF id \notin DOMAIN products
       THEN Return(p, "UpdateProduct", id, "product not found", FALSE)
       ELSE LET product == [payload EXCEPT !.ID = id]
            IN  Goto(p, "cpr_select",
                     [ op |-> "UpdateProduct", productID |-> id,
                       product |-> product, editorID |-> UserOf(p),
                       editSummary |-> editSummary,
                       currentProduct |-> products[id],
                       changes |-> calculateProductChanges(products[id], product),
                       newRevision |-> 0 ])

\* A mutant: the new revision number skips one.
NextRevisionNumberSkips(currentRevision) == currentRevision + 2

\* The revision number CreateProductRevision gives the new revision.
NextRevisionNumber(currentRevision) == currentRevision + 1

\* CreateProductRevision: Begin and SELECT current_revision_number.
CreateProductRevisionSelect(p) ==
    /\ UNCHANGED << diff, upvotes >>
    /\ pc[p] = "cpr_select"
    /\ UNCHANGED << db, calls >>
    /\ LET l == local[p]
       IN  IF l.productID \notin DOMAIN products
           THEN /\ Return(p, l.op, l.productID, "failed to get current revision", FALSE)
                /\ UNCHANGED openTx
           ELSE /\ Goto(p, "cpr_write",
                        [l EXCEPT !.newRevision = NextRevisionNumber(
                            products[l.productID].CurrentRevisionNumber)])
                /\ openTx' = openTx + 1

\* CreateProductRevision: createProductRevisionTx, UPDATE products, Commit.
CreateProductRevisionWrite(p) ==
    /\ UNCHANGED << diff, upvotes >>
    /\ pc[p] = "cpr_write"
    /\ UNCHANGED << pending_edits, calls >>
    /\ openTx' = openTx - 1
    /\ LET l == local[p]
           id == l.productID
       IN  IF \/ id \notin DOMAIN products
              \/ ~RevisionKeyFree(product_revisions, id, l.newRevision)
           THEN /\ Return(p, l.op, l.productID, "failed to create revision", FALSE)
                /\ UNCHANGED << products, product_revisions, product_field_changes >>
           ELSE /\ product_revisions' = product_revisions \cup
                     { RevisionRow(id, l.newRevision, l.editorID,
                                   l.editSummary, l.product) }
                /\ product_field_changes' = product_field_changes \cup
                     FieldChangeRows(id, l.newRevision, l.changes)
                /\ products' = SetRow(products, id,
                     RevisionUpdatedRow(products[id], l.product,
                                        l.newRevision, l.editorID))
                /\ IF l.op = "UpdateProduct"
                   THEN Goto(p, "upd_final", l)
                   ELSE Return(p, l.op, l.productID, "", TRUE)

\* Service.UpdateProduct after CreateProductRevision: the revision number
\* it computes from the product it read, and repository UpdateProduct.
UpdateProductFinal(p) ==
    /\ UNCHANGED << diff, upvotes >>
    /\ pc[p] = "upd_final"
    /\ UNCHANGED << product_revisions, product_field_changes, pending_edits,
                    openTx, calls >>
    /\ LET l == local[p]
           product == [l.product EXCEPT
                          !.CurrentRevisionNumber =
                              l.currentProduct.CurrentRevisionNumber + 1,
                          !.LastEditorID = l.editorID]
       IN  /\ products' = IF l.productID \in DOMAIN products
                          THEN SetRow(products, l.productID,
                                   DirectUpdatedRow(products[l.productID], product))
                          ELSE products
           /\ Return(p, "UpdateProduct", l.productID, "", TRUE)

\* ----------------------------------------------- RevertProductToRevision

\* RevertProductToRevision: GetProductRevision and json.Unmarshal.
RevertGetRevision(p, id, revisionNumber, reason) ==
    /\ UNCHANGED << diff, upvotes >>
    /\ CanStart(p)
    /\ calls' = calls + 1
    /\ UNCHANGED << db, openTx >>
    /\ LET found == RevisionAt(product_revisions, id, revisionNumber)
       IN  IF found = {}
           THEN Return(p, "Revert", id, "revision not found", FALSE)
           ELSE \E targetRevision \in found :
                  Goto(p, "rev_get",
                       [ op |-> "Revert", productID |-> id,
                         product |-> JSONUnmarshal(targetRevision.product_data),
                         editorID |-> UserOf(p),
                         editSummary |-> "Reverted to revision "
                             \o IntStr(revisionNumber) \o ": " \o reason,
                         revisionNumber |-> revisionNumber,
                         changes |-> << >>, newRevision |-> 0 ])

\* RevertProductToRevision: GetProductByID and calculateProductDifferences.
RevertGetProduct(p) ==
    /\ UNCHANGED << diff, upvotes >>
    /\ pc[p] = "rev_get"
    /\ UNCHANGED << db, openTx, calls >>
    /\ LET l == local[p]
       IN  IF l.productID \notin DOMAIN products
           THEN Return(p, "Revert", l.productID, "product not found", FALSE)
           ELSE Goto(p, "cpr_select",
                     [l EXCEPT !.changes = calculateProductDifferences(
                                   products[l.productID], l.product)])

\* ------------------------------------------------------------ moderation

RECURSIVE JoinFieldNames(_)
\* strings.Join(changedFields, ", ")
JoinFieldNames(changes) ==
    IF changes = << >> THEN ""
    ELSE Head(changes).FieldName \o
         (IF Len(changes) > 1 THEN ", " ELSE "") \o JoinFieldNames(Tail(changes))

\* A mutant: ApproveEdit without the status check.
ApproveEditSelectAnyStatus(p, editID) ==
    /\ UNCHANGED << diff, upvotes >>
    /\ CanStart(p)
    /\ calls' = calls + 1
    /\ UNCHANGED db
    /\ IF editID \notin DOMAIN pending_edits
       THEN /\ Return(p, "ApproveEdit", editID, "failed to get edit details", FALSE)
            /\ UNCHANGED openTx
       ELSE LET edit == pending_edits[editID]
            IN  /\ openTx' = openTx + 1
                /\ Goto(p, IF edit.change_type = "create"
                           THEN "apr_create" ELSE "apr_read",
                        [ op |-> "ApproveEdit", editID |-> editID, edit |-> edit,
                          productID |-> edit.entity_id ])

\* ApproveEdit: Begin, SELECT the edit, the status check.  The return for an
\* edit that is not pending leaves err nil, so the deferred Rollback does
\* not run and the transaction stays open.
ApproveEditSelect(p, editID) ==
    /\ UNCHANGED << diff, upvotes >>
    /\ CanStart(p)
    /\ calls' = calls + 1
    /\ UNCHANGED db
    /\ IF editID \notin DOMAIN pending_edits
       THEN /\ Return(p, "ApproveEdit", editID, "failed to get edit details", FALSE)
            /\ UNCHANGED openTx
       ELSE LET edit == pending_edits[editID]
            IN  IF edit.status # "pending"
                THEN /\ Return(p, "ApproveEdit", editID, "edit is already " \o edit.status, FALSE)
                     /\ openTx' = openTx + 1
                ELSE /\ openTx' = openTx + 1
                     /\ Goto(p, IF edit.change_type = "create"
                                THEN "apr_create" ELSE "apr_read",
                             [ op |-> "ApproveEdit", editID |-> editID, edit |-> edit,
                               productID |-> edit.entity_id ])

\* UPDATE pending_edits SET status = 'approved' WHERE id = $2
EditApproved(editID) ==
    IF editID \in DOMAIN pending_edits
    THEN [pending_edits EXCEPT ![editID].status = "approved"]
    ELSE pending_edits

\* ApproveEdit, create branch: INSERT the product, revision 1, the status
\* update, Commit.
ApproveEditCreate(p) ==
    /\ UNCHANGED << diff, upvotes >>
    /\ pc[p] = "apr_create"
    /\ UNCHANGED << product_field_changes, calls >>
    /\ openTx' = openTx - 1
    /\ LET l == local[p]
           id == l.productID
           product == [JSONUnmarshal(l.edit.change_data) EXCEPT
                          !.Approved = TRUE, !.CurrentRevisionNumber = 1, !.ID = id]
       IN  IF id \in DOMAIN products
           THEN /\ Return(p, "ApproveEdit", l.editID, "failed to insert approved product", FALSE)
                /\ UNCHANGED << products, product_revisions, pending_edits >>
           ELSE IF ~RevisionKeyFree(product_revisions, id, 1)
           THEN /\ Return(p, "ApproveEdit", l.editID, "failed to create initial revision", FALSE)
                /\ UNCHANGED << products, product_revisions, pending_edits >>
           ELSE /\ products' = SetRow(products, id, InsertedProductRow(product))
                /\ product_revisions' = product_revisions \cup
                     { RevisionRow(id, 1, product.SubmitterID,
                                   "Initial product version (approved edit)", product) }
                /\ pending_edits' = EditApproved(l.editID)
                /\ Return(p, "ApproveEdit", l.editID, "", TRUE)

\* ApproveEdit, update branch: SELECT the product, json.Unmarshal,
\* calculateProductDifferences and the edit summary.
ApproveEditRead(p) ==
    /\ UNCHANGED << diff, upvotes >>
    /\ pc[p] = "apr_read"
    /\ UNCHANGED << db, calls >>
    /\ LET l == local[p]
           id == l.productID
       IN  IF id \notin DOMAIN products
           THEN /\ Return(p, "ApproveEdit", l.editID, "failed to get current product", FALSE)
                /\ openTx' = openTx - 1
           ELSE LET currentProduct == products[id]
                    newProduct == [JSONUnmarshal(l.edit.change_data) EXCEPT
                                      !.ID = id, !.Approved = TRUE,
                                      !.CurrentRevisionNumber =
                                          currentProduct.CurrentRevisionNumber + 1,
                                      !.LastEditorID = l.edit.user_id]
                    changes == calculateProductDifferences(currentProduct, newProduct)
                IN  /\ UNCHANGED openTx
                    /\ Goto(p, "apr_update",
                            [ op |-> "ApproveEdit", editID |-> l.editID,
                              edit |-> l.edit, productID |-> id,
                              product |-> newProduct, changes |-> changes,
                              editorID |-> l.edit.user_id,
                              editSummary |->
                                  IF Len(changes) > 0
                                  THEN "Updated " \o JoinFieldNames(changes)
                                  ELSE "Product update (approved edit)" ])

\* ApproveEdit, update branch: createProductRevisionTx, UPDATE products,
\* the status update, Commit.
ApproveEditUpdate(p) ==
    /\ UNCHANGED << diff, upvotes >>
    /\ pc[p] = "apr_update"
    /\ UNCHANGED calls
    /\ openTx' = openTx - 1
    /\ LET l == local[p]
           id == l.productID
           n == l.product.CurrentRevisionNumber
       IN  IF \/ id \notin DOMAIN products
              \/ ~RevisionKeyFree(product_revisions, id, n)
           THEN /\ Return(p, "ApproveEdit", l.editID, "failed to create revision", FALSE)
                /\ UNCHANGED db
           ELSE /\ product_revisions' = product_revisions \cup
                     { RevisionRow(id, n, l.editorID, l.editSummary, l.product) }
                /\ product_field_changes' = product_field_changes \cup
                     FieldChangeRows(id, n, l.changes)
                /\ products' = SetRow(products, id,
                     ApprovedUpdatedRow(products[id], l.product, l.edit.user_id))
                /\ pending_edits' = EditApproved(l.editID)
                /\ Return(p, "ApproveEdit", l.editID, "", TRUE)

\* RejectEdit: UPDATE pending_edits SET status = 'rejected'
\*             WHERE id = $2 AND status = 'pending'
RejectEdit(p, editID) ==
    /\ UNCHANGED << diff, upvotes >>
    /\ CanStart(p)
    /\ calls' = calls + 1
    /\ pending_edits' =
         IF editID \in DOMAIN pending_edits /\ pending_edits[editID].status = "pending"
         THEN [pending_edits EXCEPT ![editID].status = "rejected"]
         ELSE pending_edits
    /\ Return(p, "RejectEdit", editID, "", TRUE)
    /\ UNCHANGED << products, product_revisions, product_field_changes, openTx >>

\* ------------------------------------------------------ DeleteAllProducts

\* DeleteAllProducts: DELETE FROM products removes, by ON DELETE CASCADE,
\* every revision and every field change; product edits are deleted too.
DeleteAllProducts(p) ==
    /\ UNCHANGED diff
    /\ upvotes' = {}
    /\ CanStart(p)
    /\ calls' = calls + 1
    /\ products' = << >>
    /\ product_revisions' =
         {r \in product_revisions : r.product_id \in DOMAIN products'}
    /\ product_field_changes' =
         {c \in product_field_changes :
            \E r \in product_revisions' :
               c.revision_id = <<r.product_id, r.revision_number>>}
    /\ pending_edits' =
         [e \in {x \in DOMAIN pending_edits :
                   pending_edits[x].entity_type # "product"} |-> pending_edits[e]]
    /\ Return(p, "DeleteAllProducts", "", "", TRUE)
    /\ UNCHANGED openTx

\* ------------------------------------------------------- storage failure

\* A mutant: a failure in createProductRevisionTx after the revision row and
\* its first field change were inserted, with no Rollback.
StorageErrorWithoutRollback(p) ==
    /\ UNCHANGED << diff, upvotes >>
    /\ pc[p] # "idle"
    /\ UNCHANGED << products, pending_edits, calls >>
    /\ LET l == local[p]
           partWay == /\ pc[p] = "cpr_write"
                      /\ l.productID \in DOMAIN products
                      /\ RevisionKeyFree(product_revisions, l.productID,
                                         l.newRevision)
       IN  /\ product_revisions' =
                IF partWay
                THEN product_revisions \cup
                       { RevisionRow(l.productID, l.newRevision, l.editorID,
                                     l.editSummary, l.product) }
                ELSE product_revisions
           /\ product_field_changes' =
                IF partWay /\ Len(l.changes) > 0
                THEN product_field_changes \cup
                       FieldChangeRows(l.productID, l.newRevision,
                                       << l.changes[1] >>)
                ELSE product_field_changes
    /\ openTx' = IF pc[p] \in {"cpr_write", "apr_create", "apr_read", "apr_update"}
                 THEN openTx - 1 ELSE openTx
    /\ Return(p, local[p].op, local[p].productID, "storage error", pc[p] = "upd_final")

\* The statement a request is about to run fails in the database: the code
\* returns the error, after the deferred Rollback when a transaction is open.
StorageError(p) ==
    /\ UNCHANGED << diff, upvotes >>
    /\ pc[p] # "idle"
    /\ UNCHANGED << db, calls >>
    /\ openTx' = IF pc[p] \in {"cpr_write", "apr_create", "apr_read", "apr_update"}
                 THEN openTx - 1 ELSE openTx
    /\ Return(p, local[p].op, local[p].productID, "storage error", pc[p] = "upd_final")

\* ------------------------------------------------------ the specification

\* The statements after the first of the request goroutine p is serving.
Continue(p) ==
    \/ CreateProductRevisionSelect(p)
    \/ CreateProductRevisionWrite(p)
    \/ UpdateProductFinal(p)
    \/ RevertGetProduct(p)
    \/ ApproveEditCreate(p)
    \/ ApproveEditRead(p)
    \/ ApproveEditUpdate(p)
    \/ StorageError(p)

\* A request arrives for goroutine p, which runs its first statement.
Start(p) ==
    \/ \E id \in ProductIDs, payload \in Payloads : CreateProduct(p, id, payload)
    \/ \E id \in ProductIDs, payload \in Payloads, s \in RequestSummaries :
          UpdateProductGet(p, id, payload, s)
    \/ \E id \in ProductIDs, n \in 1..MaxRevertTarget, reason \in RevertReasons :
          RevertGetRevision(p, id, n, reason)
    \/ \E e \in EditIDs : ApproveEditSelect(p, e)
    \/ \E e \in EditIDs : RejectEdit(p, e)

\* Requests served concurrently, one goroutine each.
Next == \E p \in Procs : Start(p) \/ DeleteAllProducts(p) \/ Continue(p)

Spec == Init /\ [][Next]_vars

\* The same requests with DeleteAllProducts (a testing aid) never called.
NextNoDelete == \E p \in Procs : Start(p) \/ Continue(p)

SpecNoDelete == Init /\ [][NextNoDelete]_vars

\* One request at a time: a request arrives only while no other goroutine
\* is serving one.
Alone(p) == \A q \in Procs \ {p} : pc[q] = "idle"

NextSeq ==
    \E p \in Procs :
       \/ \E id \in ProductIDs, payload \in Payloads :
             Alone(p) /\ CreateProduct(p, id, payload)
       \/ \E id \in ProductIDs, payload \in Payloads, s \in RequestSummaries :
             Alone(p) /\ UpdateProductGet(p, id, payload, s)
       \/ \E id \in ProductIDs, n \in 1..MaxRevertTarget, reason \in RevertReasons :
             Alone(p) /\ RevertGetRevision(p, id, n, reason)
       \/ \E e \in EditIDs : Alone(p) /\ ApproveEditSelect(p, e)
       \/ \E e \in EditIDs : Alone(p) /\ RejectEdit(p, e)
       \/ Alone(p) /\ DeleteAllProducts(p)
       \/ Continue(p)

SpecSeq == Init /\ [][NextSeq]_vars

\* --------------------------------------------- updates of a stored product

\* The state CreateProduct leaves for product p1 submitted by u1 with the
\* fields of PA.
CreatedRow ==
    InsertedProductRow([PA EXCEPT !.ID = "p1", !.SubmitterID = "u1",
                                  !.CurrentRevisionNumber = 1])

InitCreated ==
    /\ products = SetRow(<< >>, "p1", CreatedRow)
    /\ product_revisions =
          { RevisionRow("p1", 1, "u1", "Initial product version", CreatedRow) }
    /\ product_field_changes = {}
    /\ pending_edits = EditCatalog
    /\ pc = [p \in Procs |-> "idle"]
    /\ local = [p \in Procs |-> NoLocal]
    /\ response = NoResponse
    /\ openTx = 0
    /\ calls = 0
    /\ diffIn = << PA, PA >>
    /\ diffOut = NoDiff
    /\ upvotes = {}

\* Service.UpdateProduct requests, served concurrently.
NextUpdates ==
    \E p \in Procs :
       \/ \E id \in ProductIDs, payload \in Payloads, s \in RequestSummaries :
             UpdateProductGet(p, id, payload, s)
       \/ CreateProductRevisionSelect(p)
       \/ CreateProductRevisionWrite(p)
       \/ UpdateProductFinal(p)
       \/ StorageError(p)

SpecUpdates == InitCreated /\ [][NextUpdates]_vars

\* ------------------------------------------- the diff engines on their own

\* The values of the fields the diff engines compare.
DiffInputs ==
    { Product("", title, "s", sec, approved, verified, list) :
        title \in {"", "A", "B"}, sec \in {500, 504, 510},
        approved \in BOOLEAN, verified \in BOOLEAN,
        list \in {NilSlice, Slice(<< >>), Slice(<<"x">>)} }

InitDiff ==
    /\ products = << >>
    /\ product_revisions = {}
    /\ product_field_changes = {}
    /\ pending_edits = << >>
    /\ pc = [p \in Procs |-> "idle"]
    /\ local = [p \in Procs |-> NoLocal]
    /\ response = NoResponse
    /\ openTx = 0
    /\ calls = 0
    /\ diffIn \in DiffInputs \X DiffInputs
    /\ diffOut = NoDiff
    /\ upvotes = {}

\* Both engines on (from, to), and the repository's on (to, from).
RunDiff ==
    /\ diffOut = NoDiff
    /\ diffOut' = [ op |-> "diff",
                    forward |-> calculateProductDifferences(diffIn[1], diffIn[2]),
                    backward |-> calculateProductDifferences(diffIn[2], diffIn[1]),
                    service |-> calculateProductChanges(diffIn[1], diffIn[2]) ]
    /\ UNCHANGED << db, pc, local, response, openTx, calls, diffIn, upvotes >>

SpecDiff == InitDiff /\ [][RunDiff]_vars

\* ---------------------------------------------------- reading the tables

\* The revision numbers stored for product id.
RevisionNumbers(id) ==
    {r.revision_number : r \in RevisionsOf(product_revisions, id)}

\* The largest of a non-empty set of numbers.
Max(S) == CHOOSE n \in S : \A m \in S : m <= n

\* No request is being served.
AllIdle == \A p \in Procs : pc[p] = "idle"

\* ------------------------------------------------------------------- C1

\* C1: with requests served one at a time, for every product the revision
\* numbers stored in product_revisions are exactly 1..current_revision_number.
C1_GaplessUpToCurrent ==
    \A id \in DOMAIN products :
       RevisionNumbers(id) = 1..products[id].CurrentRevisionNumber

\* A product at revision 3 after a create, an update and a revert.
C1_Witness ==
    /\ AllIdle
    /\ \E id \in DOMAIN products :
          /\ products[id].CurrentRevisionNumber = 3
          /\ RevisionNumbers(id) = {1, 2, 3}
          /\ \E r \in RevisionAt(product_revisions, id, 2) :
                r.edit_summary \in EditSummaries
          /\ \E r \in RevisionAt(product_revisions, id, 3) :
                r.edit_summary \notin EditSummaries

\* ------------------------------------------------------------------- C2

\* C2: in every reachable state, concurrent updates included,
\* current_revision_number is the largest revision number stored for the
\* product.
C2_CurrentIsMaxRevision ==
    \A id \in DOMAIN products :
       /\ RevisionNumbers(id) # {}
       /\ products[id].CurrentRevisionNumber = Max(RevisionNumbers(id))

\* ------------------------------------------------------------------- C3

\* The revision number the write of goroutine p is about to insert.
PendingRevisionNumber(p) ==
    IF local[p].op = "ApproveEdit"
    THEN local[p].product.CurrentRevisionNumber
    ELSE local[p].newRevision

\* Goroutine p is at the write (insert, update, commit) of a revision.
AtRevisionWrite(p) == pc[p] \in {"cpr_write", "apr_update"}

C3_Step ==
    \* no two revisions of a product carry one number
    /\ \A r1, r2 \in product_revisions' :
          (r1.product_id = r2.product_id /\ r1.revision_number = r2.revision_number)
             => r1 = r2
    \* a write appends one revision, numbered one past the last one stored:
    \* N+1 for the first writer, N+2 for one serialized after it
    /\ Cardinality(product_revisions' \ product_revisions) <= 1
    /\ \A r \in product_revisions' \ product_revisions :
          r.revision_number =
             IF RevisionNumbers(r.product_id) = {} THEN 1
             ELSE Max(RevisionNumbers(r.product_id)) + 1
    \* the writer that loses finds its number taken, returns the error and
    \* changes nothing
    /\ \A p \in Procs :
          ( /\ AtRevisionWrite(p)
            /\ pc'[p] = "idle"
            /\ response'.err = "failed to create revision" )
          => /\ PendingRevisionNumber(p) \in RevisionNumbers(local[p].productID)
             /\ UNCHANGED db

\* C3: of concurrent writes to one product, each revision appended is numbered
\* one past the last stored (N+1, then N+2), a writer whose number was taken
\* meanwhile returns an error and writes nothing, and no two revisions of a
\* product ever carry the same number.
C3_SerializedOrRejected == [][C3_Step]_vars

\* Two updates read the product at the same revision N with different
\* proposed states; one appended N+1 and the other N+2.
C3_Witness ==
    /\ pc["t1"] = "upd_final" /\ pc["t2"] = "upd_final"
    /\ local["t1"].productID = local["t2"].productID
    /\ local["t1"].product # local["t2"].product
    /\ local["t1"].currentProduct.CurrentRevisionNumber =
          local["t2"].currentProduct.CurrentRevisionNumber
    /\ { local["t1"].newRevision, local["t2"].newRevision } =
          { local["t1"].currentProduct.CurrentRevisionNumber + 1,
            local["t1"].currentProduct.CurrentRevisionNumber + 2 }

\* ------------------------------------------------------------------- C4

\* The versioned fields of a product.
VersionedFields(p) ==
    [ title |-> p.Title, short_desc |-> p.ShortDesc, long_desc |-> p.LongDesc,
      logo_url |-> p.LogoURL, markdown_content |-> p.MarkdownContent,
      security_score |-> p.SecurityScore, ux_score |-> p.UXScore,
      decent_score |-> p.DecentScore, vibes_score |-> p.VibesScore,
      is_verified |-> p.IsVerified, approved |-> p.Approved,
      analytics_list |-> p.AnalyticsList ]

\* C4: a write (Service.UpdateProduct, ApproveEdit of an update) whose
\* proposed state equals the product's current state creates no revision and
\* leaves current_revision_number unchanged.
C4_NoOpCreatesNoRevision ==
    [][ \A p \in Procs :
          ( /\ AtRevisionWrite(p)
            /\ local[p].op \in {"UpdateProduct", "ApproveEdit"}
            /\ pc'[p] # pc[p]
            /\ local[p].productID \in DOMAIN products
            /\ VersionedFields(products[local[p].productID]) =
                  VersionedFields(local[p].product) )
          => /\ product_revisions' = product_revisions
             /\ local[p].productID \in DOMAIN products'
             /\ products'[local[p].productID].CurrentRevisionNumber =
                   products[local[p].productID].CurrentRevisionNumber ]_vars

\* ------------------------------------------------------------------- C5

\* C5: Service.UpdateProduct is all-or-nothing: when it returns an error it
\* has committed nothing, and when it returns success it has committed its
\* writes.
C5_UpdateAllOrNothing ==
    response.op = "UpdateProduct" =>
       IF response.err # ""
       THEN ~response.wrote
       ELSE response.wrote

\* ------------------------------------------------------------------- C6

\* The product_field_changes rows of revision (id, n).
FieldChangesOf(changes, id, n) == {c \in changes : c.revision_id = <<id, n>>}

\* The revisions and field changes stored in this state are stored unchanged
\* in the next one.
RevisionsKept ==
    /\ product_revisions \subseteq product_revisions'
    /\ \A r \in product_revisions :
          FieldChangesOf(product_field_changes', r.product_id, r.revision_number)
             = FieldChangesOf(product_field_changes, r.product_id, r.revision_number)

C7_RevisionsNeverChange == [][RevisionsKept]_vars

\* C7: no repository operation other than DeleteAllProducts modifies or
\* deletes a committed revision or its field changes.
C7_RevisionsKeptUnlessDeleteAll ==
    [][ (response'.op = "DeleteAllProducts") \/ RevisionsKept ]_vars

\* Revision 1 and revision 2 with its field changes are stored, and a third
\* write to the same product has since been committed.
C7_Witness ==
    \E id \in DOMAIN products :
       /\ RevisionNumbers(id) = {1, 2, 3}
       /\ FieldChangesOf(product_field_changes, id, 2) # {}
       /\ FieldChangesOf(product_field_changes, id, 3) # {}

\* ------------------------------------------------------------------- C8

\* C8: in every reachable state, for every product, each versioned field of
\* the products row equals the value of that field in the snapshot of the
\* revision numbered current_revision_number.
C8_RowMatchesCurrentSnapshot ==
    \A id \in DOMAIN products :
       \E r \in RevisionAt(product_revisions, id,
                           products[id].CurrentRevisionNumber) :
          VersionedFields(products[id]) =
             VersionedFields(JSONUnmarshal(r.product_data))

\* ------------------------------------------------------------------- C9

\* CompareProductRevisions(productID, fromRevision, toRevision), for
\* revisions that exist: the Changes of the diff it returns.
CompareProductRevisions(productID, fromRevision, toRevision) ==
    LET fromRev == CHOOSE r \in RevisionAt(product_revisions, productID, fromRevision) : TRUE
        toRev   == CHOOSE r \in RevisionAt(product_revisions, productID, toRevision) : TRUE
    IN  calculateProductDifferences(JSONUnmarshal(fromRev.product_data),
                                    JSONUnmarshal(toRev.product_data))

\* A mutant: the field changes of every revision of the product.
getFieldChangesOfProduct(id, n) ==
    { FieldChange(c.field_name, c.old_value, c.new_value, c.change_type) :
        c \in {x \in product_field_changes : x.revision_id[1] = id} }

\* getRevisionFieldChanges: the changes stored with a revision, as a set.
getRevisionFieldChanges(id, n) ==
    { FieldChange(c.field_name, c.old_value, c.new_value, c.change_type) :
        c \in FieldChangesOf(product_field_changes, id, n) }

\* C9: for every product and every revision n > 1, the field changes stored
\* with revision n are the change set CompareProductRevisions(id, n-1, n)
\* returns.
C9_StoredChangesAreCompare ==
    \A r \in product_revisions :
       ( /\ r.revision_number > 1
         /\ RevisionAt(product_revisions, r.product_id, r.revision_number - 1) # {} )
       => getRevisionFieldChanges(r.product_id, r.revision_number) =
             LET d == CompareProductRevisions(r.product_id,
                          r.revision_number - 1, r.revision_number)
             IN  { d[i] : i \in 1..Len(d) }

\* ------------------------------------------------------------------ C10

\* A change set read backwards: old and new values swapped, "added" and
\* "removed" swapped, "modified" kept.
Inverse(changes) ==
    [ i \in 1..Len(changes) |->
        FieldChange(changes[i].FieldName, changes[i].NewValue, changes[i].OldValue,
           IF changes[i].ChangeType = "added" THEN "removed"
           ELSE IF changes[i].ChangeType = "removed" THEN "added"
           ELSE changes[i].ChangeType) ]

\* C10: for any two snapshots A and B, the diff of (B, A) is the diff of
\* (A, B) with old and new values swapped, "added" and "removed" swapped and
\* "modified" unchanged.
C10_DiffIsAntisymmetric ==
    diffOut.op = "diff" => diffOut.backward = Inverse(diffOut.forward)

\* A diff with an added field and a modified field, whose reverse has the
\* field removed.
C10_Witness ==
    /\ diffOut.op = "diff"
    /\ \E i, j \in 1..Len(diffOut.forward) :
          /\ diffOut.forward[i].ChangeType = "added"
          /\ diffOut.backward[i].ChangeType = "removed"
          /\ diffOut.forward[j].ChangeType = "modified"

\* ------------------------------------------------------------------ C11

\* The field values calculateProductDifferences compares, by field name.
FieldValues(p) ==
    [ title |-> p.Title, short_desc |-> p.ShortDesc, long_desc |-> p.LongDesc,
      logo_url |-> p.LogoURL, markdown_content |-> p.MarkdownContent,
      security_score |-> Fmt2(p.SecurityScore), ux_score |-> Fmt2(p.UXScore),
      decent_score |-> Fmt2(p.DecentScore), vibes_score |-> Fmt2(p.VibesScore),
      is_verified |-> FmtBool(p.IsVerified), approved |-> FmtBool(p.Approved),
      analytics_list |-> MarshalList(p.AnalyticsList) ]

\* The snapshot of revision (id, n), unmarshalled.
SnapshotOf(id, n) ==
    JSONUnmarshal((CHOOSE r \in RevisionAt(product_revisions, id, n) : TRUE).product_data)

\* Field values after a set of field changes has been applied to them.
ApplyChanges(values, changes) ==
    [ f \in DOMAIN values |->
        IF \E c \in changes : c.FieldName = f
        THEN (CHOOSE c \in changes : c.FieldName = f).NewValue
        ELSE values[f] ]

\* The field values of revision 1 of a product after the field changes
\* stored with revisions 2..n have been applied in order.
RECURSIVE Replay(_, _)
Replay(id, n) ==
    IF n <= 1 THEN FieldValues(SnapshotOf(id, 1))
    ELSE ApplyChanges(Replay(id, n - 1), getRevisionFieldChanges(id, n))

\* The changes that lead from one assignment of field values to another.
NetChanges(from, to) ==
    UNION { { addChange(f, from[f], to[f])[i] :
                i \in 1..Len(addChange(f, from[f], to[f])) } : f \in DOMAIN from }

\* C11: for every product with revisions 1..N, the change set of
\* CompareProductRevisions(id, 1, N) is the net effect of applying, in
\* order, the field changes stored with revisions 2..N to the snapshot of
\* revision 1.
C11_CompareIsReplay ==
    \A id \in DOMAIN products :
       ( /\ RevisionNumbers(id) # {}
         /\ RevisionNumbers(id) = 1..Max(RevisionNumbers(id)) )
       => LET N == Max(RevisionNumbers(id))
              d == CompareProductRevisions(id, 1, N)
          IN  { d[i] : i \in 1..Len(d) } =
                 NetChanges(FieldValues(SnapshotOf(id, 1)), Replay(id, N))

\* ------------------------------------------------------------------ C12

\* The score fields of a product.
ScoreFields == {"security_score", "ux_score", "decent_score", "vibes_score"}

\* The field names a change sequence reports.
ChangedFields(changes) == { changes[i].FieldName : i \in 1..Len(changes) }

\* C12: whenever a score field has two values that are equal when formatted
\* to 2 decimals, neither calculateProductChanges nor
\* calculateProductDifferences reports a change for that field.
C12_DisplayEqualScoresNoChange ==
    diffOut.op = "diff" =>
       \A f \in ScoreFields :
          FieldValues(diffIn[1])[f] = FieldValues(diffIn[2])[f]
             => /\ f \notin ChangedFields(diffOut.forward)
                /\ f \notin ChangedFields(diffOut.service)

\* ------------------------------------------------------------------ C13

\* C13: every persisted field change has change_type "added" exactly when
\* its old value is empty, "removed" exactly when its new value is empty and
\* its old value is not, and "modified" otherwise.
C13_ChangeTypeClassified ==
    \A c \in product_field_changes :
       c.change_type = IF c.old_value = "" THEN "added"
                       ELSE IF c.new_value = "" THEN "removed"
                       ELSE "modified"

\* ------------------------------------------------------------------ C14

\* C14: no product gets stuck: in every reachable state a
\* Service.UpdateProduct call on an existing product with a changed state,
\* run with no other call in flight and no storage failure, succeeds in
\* creating the next revision.
C14_LoneUpdateCreatesRevision ==
    [][ \A p \in Procs :
          ( /\ pc[p] = "cpr_write" /\ local[p].op = "UpdateProduct"
            /\ Alone(p)
            /\ pc'[p] # pc[p]
            /\ (response'.op = "none" \/ response'.err # "storage error")
            /\ local[p].productID \in DOMAIN products
            /\ local[p].currentProduct = products[local[p].productID]
            /\ local[p].newRevision =
                  NextRevisionNumber(products[local[p].productID].CurrentRevisionNumber)
            /\ VersionedFields(local[p].product) #
                  VersionedFields(products[local[p].productID]) )
          => /\ pc'[p] = "upd_final"
             /\ \E r \in product_revisions' \ product_revisions :
                   /\ r.product_id = local[p].productID
                   /\ r.revision_number = local[p].newRevision ]_vars

\* ------------------------------------------------------------------ C15

C16_RevertUnknownRevisionRejected ==
    [][ \A p \in Procs :
          pc[p] = "idle" =>
             /\ pc'[p] = "rev_get" =>
                   local'[p].revisionNumber \in RevisionNumbers(local'[p].productID)
             /\ ( /\ response'.op = "Revert"
                  /\ response'.proc = p )
                => /\ response'.err = "revision not found"
                   /\ \E k \in 1..MaxRevertTarget :
                         k \notin RevisionNumbers(response'.key)
                   /\ UNCHANGED << products, product_revisions,
                                   product_field_changes >> ]_vars

\* A revert of p1, which has no revisions, was rejected while revisions 1
\* and 2 exist for p2.
C16_Witness ==
    /\ response.op = "Revert" /\ response.err = "revision not found"
    /\ response.key = "p1" /\ RevisionNumbers("p1") = {}
    /\ RevisionNumbers("p2") = 1..MaxRevertTarget

\* ------------------------------------------------------------------ C17

\* C17: Service.UpdateProduct for a product id that does not exist returns
\* "product not found" and creates no product row, no revision and no field
\* change; an update goes on only for a product that exists.
C17_UpdateUnknownProductRejected ==
    [][ \A p \in Procs :
          pc[p] = "idle" =>
             /\ ( pc'[p] = "cpr_select" /\ local'[p].op = "UpdateProduct" )
                => local'[p].productID \in DOMAIN products
             /\ ( /\ response'.op = "UpdateProduct"
                  /\ response'.proc = p
                  /\ response'.err = "product not found" )
                => /\ response'.key \notin DOMAIN products
                   /\ response'.key \notin DOMAIN products'
                   /\ UNCHANGED << products, product_revisions,
                                   product_field_changes >> ]_vars

\* An update of p2 was rejected as not found while p1 exists.
C17_Witness ==
    /\ response.op = "UpdateProduct" /\ response.err = "product not found"
    /\ response.key = "p2"
    /\ DOMAIN products = {"p1"}

\* ------------------------------------------------------------------ C18

\* C18: an update request with an empty edit summary is rejected with
\* "Edit summary is required" and writes nothing; no update with an empty
\* summary gets past the handler, and every revision numbered above 1 has a
\* non-empty edit summary.
C18_EmptySummaryRejected ==
    [][ /\ \A p \in Procs :
             ( pc[p] = "idle" /\ pc'[p] = "cpr_select"
               /\ local'[p].op = "UpdateProduct" )
             => local'[p].editSummary # ""
        /\ ( response'.op = "UpdateProduct"
             /\ response'.err = "Edit summary is required" )
           => UNCHANGED db
        /\ \A r \in product_revisions' :
             r.revision_number > 1 => r.edit_summary # "" ]_vars

\* An update of an existing product was rejected for its empty summary
\* after an update with a summary had created revision 2.
C18_Witness ==
    /\ response.op = "UpdateProduct"
    /\ response.err = "Edit summary is required"
    /\ response.key \in DOMAIN products
    /\ RevisionNumbers(response.key) = {1, 2}
    /\ \E r \in RevisionAt(product_revisions, response.key, 2) :
          r.edit_summary \in EditSummaries

\* ------------------------------------------------------------------ C19

\* The step is a successful creation of product id by goroutine p:
\* CreateProduct, or ApproveEdit of a create edit.
CreatedBy(p, id) ==
    /\ response'.op \in {"CreateProduct", "ApproveEdit"}
    /\ response'.proc = p
    /\ response'.err = ""
    /\ \/ pc[p] = "idle" /\ response'.op = "CreateProduct" /\ response'.key = id
       \/ pc[p] = "apr_create" /\ local[p].productID = id

\* C19: after CreateProduct or ApproveEdit of a create edit succeeds, the
\* product has exactly one revision, numbered 1, with zero field changes,
\* and current_revision_number = 1; in every state revision 1 of any product
\* owns zero field changes.
C19_BaselineRevision ==
    [][ /\ \A p \in Procs, id \in ProductIDs :
             CreatedBy(p, id) =>
                /\ id \in DOMAIN products'
                /\ products'[id].CurrentRevisionNumber = 1
                /\ Cardinality({r \in product_revisions' : r.product_id = id}) = 1
                /\ \A r \in product_revisions' :
                      r.product_id = id => r.revision_number = 1
        /\ \A c \in product_field_changes' : c.revision_id[2] # 1 ]_vars

\* ApproveEdit of the create edit e2 has created p2 at revision 1, while p1,
\* created by CreateProduct, has field changes stored with its revision 2.
C19_Witness ==
    /\ response.op = "ApproveEdit" /\ response.err = "" /\ response.key = "e2"
    /\ DOMAIN products = {"p1", "p2"}
    /\ RevisionNumbers("p2") = {1}
    /\ RevisionNumbers("p1") = {1, 2}
    /\ FieldChangesOf(product_field_changes, "p1", 2) # {}

\* ------------------------------------------------------------------ C20

\* The step is the end of an attempt of goroutine p to create product id
\* that did not fail in the storage layer.
CreateAttemptBy(p, id) ==
    /\ response'.op \in {"CreateProduct", "ApproveEdit"}
    /\ response'.proc = p
    /\ response'.err # "storage error"
    /\ \/ pc[p] = "idle" /\ response'.op = "CreateProduct" /\ response'.key = id
       \/ pc[p] = "apr_create" /\ local[p].productID = id

\* C20: creating a product (CreateProduct, ApproveEdit of a create edit)
\* under an id that already has a revision 1 fails with an error and leaves
\* the products row, the revisions and the field changes unchanged.
C20_CreateOnExistingIdRejected ==
    [][ \A p \in Procs, id \in ProductIDs :
          ( CreateAttemptBy(p, id) /\ 1 \in RevisionNumbers(id) )
          => /\ response'.err \in {"failed to create product",
                                   "failed to insert approved product",
                                   "failed to create initial revision"}
             /\ UNCHANGED db ]_vars

\* CreateProduct under the id of a product that stands at revision 2 has
\* failed.
C20_Witness ==
    /\ response.op = "CreateProduct"
    /\ response.err = "failed to create product"
    /\ response.key \in DOMAIN products
    /\ RevisionNumbers(response.key) = {1, 2}
    /\ FieldChangesOf(product_field_changes, response.key, 2) # {}

\* ---------------------------------------------------- history reads

\* The pages a history request asks for.
Pages == {1, 2, 3}
\* The page sizes it asks for: 20 is the handler's default.
PerPages == {1, 2, 20}

\* A read request's response: what it returned besides the error.
ReadResponse(p, op, key, err, result) ==
    [proc |-> p, op |-> op, key |-> key, err |-> err, wrote |-> FALSE,
     result |-> result]

\* ORDER BY revision_number DESC over the rows of one product.
RECURSIVE OrderByRevisionDesc(_)
OrderByRevisionDesc(rows) ==
    IF rows = {} THEN << >>
    ELSE LET top == CHOOSE r \in rows :
                       \A x \in rows : x.revision_number <= r.revision_number
         IN  << top >> \o OrderByRevisionDesc(rows \ {top})

\* LIMIT limit OFFSET offset over an ordered result.
LimitOffset(s, limit, offset) ==
    [ i \in 1..(IF Len(s) - offset < limit
                THEN (IF Len(s) > offset THEN Len(s) - offset ELSE 0)
                ELSE limit) |-> s[offset + i] ]

\* A mutant: the offset of the page after the one asked for.
OffsetOfNextPage(page, perPage) == page * perPage
\* offset := (page - 1) * perPage
Offset(page, perPage) == (page - 1) * perPage

\* One row of the history: the revision's number, summary and editor, the
\* count of its field changes, and MajorChange = ChangeCount > 2.
RevisionSummary(r, changes) ==
    LET changeCount ==
          Cardinality({c \in changes :
                         c.revision_id = <<r.product_id, r.revision_number>>})
    IN  [ RevisionNumber |-> r.revision_number, EditSummary |-> r.edit_summary,
          EditorID |-> r.editor_id, ChangeCount |-> changeCount,
          MajorChange |-> changeCount > 2 ]

\* The second statement of GetProductRevisions on given tables.
SelectRevisionsPage(revs, changes, productID, limit, offset) ==
    LET ordered == OrderByRevisionDesc(RevisionsOf(revs, productID))
        rows    == LimitOffset(ordered, limit, offset)
    IN  [ i \in 1..Len(rows) |-> RevisionSummary(rows[i], changes) ]

\* GetProductRevisions, first statement: SELECT COUNT(*) of the product's
\* revisions.
GetProductRevisionsCount(p, productID, page, perPage) ==
    /\ CanStart(p)
    /\ calls' = calls + 1
    /\ Goto(p, "gprs_select",
            [ op |-> "GetProductRevisions", productID |-> productID,
              page |-> page, perPage |-> perPage,
              offset |-> Offset(page, perPage),
              total |-> Cardinality(RevisionsOf(product_revisions, productID)) ])
    /\ UNCHANGED << db, openTx, diff, upvotes >>

\* GetProductRevisions, second statement: the page of revisions; the
\* function returns the rows and the total counted before.
GetProductRevisionsSelect(p) ==
    /\ pc[p] = "gprs_select"
    /\ LET l == local[p]
       IN  /\ pc' = [pc EXCEPT ![p] = "idle"]
           /\ local' = [local EXCEPT ![p] = NoLocal]
           /\ response' =
                ReadResponse(p, l.op, l.productID, "",
                    [ revisions |-> SelectRevisionsPage(product_revisions,
                                        product_field_changes, l.productID,
                                        l.perPage, l.offset),
                      total |-> l.total, page |-> l.page, perPage |-> l.perPage ])
    /\ UNCHANGED << db, openTx, calls, diff, upvotes >>

\* GetProductRevision, first statement: the revision row (product_id,
\* revision_number); sql.ErrNoRows is returned as "revision not found".
GetProductRevisionRow(p, productID, revisionNumber) ==
    /\ CanStart(p)
    /\ calls' = calls + 1
    /\ LET rows == RevisionAt(product_revisions, productID, revisionNumber)
       IN  IF rows = {}
           THEN /\ pc' = pc
                /\ local' = local
                /\ response' = ReadResponse(p, "GetProductRevision", productID,
                                            "revision not found",
                                            [ revisionNumber |-> revisionNumber ])
           ELSE Goto(p, "gpr_changes",
                     [ op |-> "GetProductRevision", productID |-> productID,
                       revisionNumber |-> revisionNumber,
                       revision |-> CHOOSE r \in rows : TRUE ])
    /\ UNCHANGED << db, openTx, diff, upvotes >>

\* GetProductRevision, second statement: getRevisionFieldChanges of the
\* row read, returned with it.
GetProductRevisionChanges(p) ==
    /\ pc[p] = "gpr_changes"
    /\ LET l == local[p]
       IN  /\ pc' = [pc EXCEPT ![p] = "idle"]
           /\ local' = [local EXCEPT ![p] = NoLocal]
           /\ response' =
                ReadResponse(p, l.op, l.productID, "",
                    [ revisionNumber |-> l.revisionNumber,
                      ProductID |-> l.revision.product_id,
                      RevisionNumber |-> l.revision.revision_number,
                      EditorID |-> l.revision.editor_id,
                      EditSummary |-> l.revision.edit_summary,
                      ProductData |-> l.revision.product_data,
                      FieldChanges |->
                         getRevisionFieldChanges(l.revision.product_id,
                                                 l.revision.revision_number) ])
    /\ UNCHANGED << db, openTx, calls, diff, upvotes >>

\* Service.UpdateProduct requests for product p1, on a database that
\* holds it.
UpdatesOfP1(p) ==
    \/ \E payload \in Payloads, s \in EditSummaries :
          UpdateProductGet(p, "p1", payload, s)
    \/ CreateProductRevisionSelect(p)
    \/ CreateProductRevisionWrite(p)
    \/ UpdateProductFinal(p)

\* In the read specifications goroutine t1 serves the updates and t2 the
\* reads, so that a read runs between any two statements of an update.
Writer == "t1"
Reader == "t2"

\* GetProductRevisions requests served concurrently with the updates.
NextHistory ==
    \/ UpdatesOfP1(Writer)
    \/ \E id \in ProductIDs, page \in Pages, perPage \in PerPages :
          GetProductRevisionsCount(Reader, id, page, perPage)
    \/ GetProductRevisionsSelect(Reader)

SpecHistory == InitCreated /\ [][NextHistory]_vars

\* GetProductRevision requests served concurrently with the updates.
NextRevisionRead ==
    \/ UpdatesOfP1(Writer)
    \/ \E id \in ProductIDs, n \in 1..MaxCalls :
          GetProductRevisionRow(Reader, id, n)
    \/ GetProductRevisionChanges(Reader)

SpecRevisionRead == InitCreated /\ [][NextRevisionRead]_vars

\* ------------------------------------------------------------ C21

\* The revision of product id that has exactly k - 1 revisions of the
\* product above it.
RankedRevision(id, k) ==
    CHOOSE r \in RevisionsOf(product_revisions, id) :
       Cardinality({x \in RevisionsOf(product_revisions, id) :
                      x.revision_number > r.revision_number}) = k - 1

\* A returned page holds the revisions ranked (page-1)*perPage+1 ..
\* page*perPage of the stored ones, highest number first.
PageIsRanked(id, res) ==
    LET total == Cardinality(RevisionsOf(product_revisions, id))
        first == (res.page - 1) * res.perPage + 1
        last  == IF res.page * res.perPage < total
                 THEN res.page * res.perPage ELSE total
    IN  /\ Len(res.revisions) = (IF last >= first THEN last - first + 1 ELSE 0)
        /\ \A i \in 1..Len(res.revisions) :
              LET r == RankedRevision(id, first + i - 1)
              IN  /\ res.revisions[i].RevisionNumber = r.revision_number
                  /\ res.revisions[i].EditSummary = r.edit_summary
                  /\ res.revisions[i].EditorID = r.editor_id
        /\ \A i, j \in 1..Len(res.revisions) :
              i < j => res.revisions[i].RevisionNumber
                         > res.revisions[j].RevisionNumber

\* The pages of one size list every stored revision exactly once.
PagesCover ==
    \A id \in ProductIDs, perPage \in PerPages :
       LET pages == [ page \in 1..(MaxCalls + 2) |->
                        SelectRevisionsPage(product_revisions,
                            product_field_changes, id, perPage,
                            Offset(page, perPage)) ]
           listed == { <<page, i>> : page \in DOMAIN pages, i \in 1..(MaxCalls + 2) }
           at(n)  == { x \in listed :
                         /\ x[2] <= Len(pages[x[1]])
                         /\ pages[x[1]][x[2]].RevisionNumber = n }
       IN  /\ \A n \in RevisionNumbers(id) : Cardinality(at(n)) = 1
           /\ \A page \in DOMAIN pages :
                 \A i \in 1..Len(pages[page]) :
                    pages[page][i].RevisionNumber \in RevisionNumbers(id)

\* C21: GetProductRevisions(id, page, perPage) with page >= 1 counts the
\* revisions of the product as its total, returns the revisions ranked
\* (page-1)*perPage+1 .. page*perPage in strictly decreasing revision
\* number, and changes no stored row; the pages of one size together
\* list every revision of the product exactly once.
C21_HistoryPage ==
    /\ []PagesCover
    /\ [][\A p \in Procs :
            /\ (pc[p] = "idle" /\ pc'[p] = "gprs_select")
                  => /\ local'[p].total =
                          Cardinality(RevisionsOf(product_revisions,
                                                  local'[p].productID))
                     /\ UNCHANGED << db, upvotes >>
            /\ (pc[p] = "gprs_select" /\ pc'[p] = "idle")
                  => /\ response'.op = "GetProductRevisions"
                     /\ response'.err = ""
                     /\ response'.result.total = local[p].total
                     /\ PageIsRanked(local[p].productID, response'.result)
                     /\ UNCHANGED << db, upvotes >>
       ]_vars

\* The second page of a history of two revisions, one revision a page.
C21_Witness ==
    /\ response.op = "GetProductRevisions"
    /\ response.result.page = 2
    /\ response.result.perPage = 1
    /\ response.result.total = 2
    /\ Len(response.result.revisions) = 1
    /\ response.result.revisions[1].RevisionNumber = 1

\* ------------------------------------------------------------ C22

\* The stored revision (id, n) as GetProductRevision returns it.
StoredRevision(id, n) ==
    LET r == CHOOSE x \in product_revisions :
                x.product_id = id /\ x.revision_number = n
    IN  [ revisionNumber |-> n, ProductID |-> id, RevisionNumber |-> n,
          EditorID |-> r.editor_id, EditSummary |-> r.edit_summary,
          ProductData |-> r.product_data,
          FieldChanges |->
             { FieldChange(c.field_name, c.old_value, c.new_value, c.change_type) :
                 c \in FieldChangesOf(product_field_changes, id, n) } ]

DefaultLimit == 50
\* parsedLimit <= 200
MaxLimit == 200

\* strconv.Atoi on a string given as its characters: an optional sign and
\* decimal digits, anything else a syntax error; more than 19 significant
\* digits are out of int's range, and a value of ten digits or more is
\* returned as 10^9, which stands for every such value.
IsDigit(c) == \E d \in 0..9 : Digit(d) = c
DigitValue(c) == CHOOSE d \in 0..9 : Digit(d) = c
RECURSIVE DigitsValue(_)
DigitsValue(s) ==
    IF s = << >> THEN 0
    ELSE 10 * DigitsValue(SubSeq(s, 1, Len(s) - 1)) + DigitValue(s[Len(s)])
RECURSIVE StripZeros(_)
StripZeros(s) ==
    IF Len(s) > 1 /\ s[1] = "0" THEN StripZeros(Tail(s)) ELSE s
Atoi(s) ==
    LET signed == s # << >> /\ s[1] \in {"+", "-"}
        body   == IF signed THEN Tail(s) ELSE s
        sign   == IF signed /\ s[1] = "-" THEN -1 ELSE 1
    IN  IF body = << >> \/ \E i \in 1..Len(body) : ~IsDigit(body[i])
        THEN [err |-> TRUE, value |-> 0]
        ELSE LET digits == StripZeros(body)
             IN  IF Len(digits) > 19 THEN [err |-> TRUE, value |-> 0]
                 ELSE IF Len(digits) > 9
                 THEN [err |-> FALSE, value |-> sign * 1000000000]
                 ELSE [err |-> FALSE, value |-> sign * DigitsValue(digits)]

\* A mutant: any positive limit is taken as asked.
ParseLimitUncapped(limitStr) ==
    IF limitStr # << >> /\ ~Atoi(limitStr).err /\ Atoi(limitStr).value > 0
    THEN Atoi(limitStr).value
    ELSE DefaultLimit
\* Handler.GetRecentEdits: the limit handed to the service.
ParseLimit(limitStr) ==
    IF /\ limitStr # << >>
       /\ ~Atoi(limitStr).err
       /\ Atoi(limitStr).value > 0
       /\ Atoi(limitStr).value <= MaxLimit
    THEN Atoi(limitStr).value
    ELSE DefaultLimit

\* The limit parameters requested: absent, not a number, negative, zero,
\* small, the default and the maximum, one above it, and large ones.
LimitParams ==
    { << >>, <<"a", "b", "c">>, <<"-", "5">>, <<"0">>, <<"2">>, <<"5", "0">>,
      <<"+", "5", "1">>, <<"2", "0", "0">>, <<"0", "2", "0", "1">>,
      <<"2", "5", "0">>,
      <<"1", "0", "0", "0", "0", "0", "0", "0", "0", "0", "0">>,
      <<"9", "9", "9", "9", "9", "9", "9", "9", "9", "9",
        "9", "9", "9", "9", "9", "9", "9", "9", "9", "9">> }

\* ORDER BY pr.created_at DESC, for rows created at distinct times lo..hi:
\* the newer half of the rows in order, then the older half. (The
\* arguments are bound in a set constructor, which evaluates each once.)
RECURSIVE OrderByCreatedDescIn(_, _, _)
OrderByCreatedDescIn(rows, lo, hi) ==
    CHOOSE ordered \in
       { IF rs = {} THEN << >>
         ELSE IF l >= h THEN << CHOOSE r \in rs : TRUE >>
         ELSE OrderByCreatedDescIn({r \in rs : r.created_at > (l + h) \div 2},
                                   (l + h) \div 2 + 1, h)
                \o OrderByCreatedDescIn({r \in rs : r.created_at <= (l + h) \div 2},
                                        l, (l + h) \div 2)
         : rs \in {rows}, l \in {lo}, h \in {hi} } : TRUE

OrderByCreatedDesc(rows) ==
    IF rows = {} THEN << >>
    ELSE LET times == {r.created_at : r \in rows}
         IN  OrderByCreatedDescIn(rows, -Max({-t : t \in times}), Max(times))

\* A product_revisions table of n revisions of product p1, with the
\* created_at column the feed orders by (the revision specifications leave
\* the column out: no statement of theirs reads it). Revision i was
\* created at time i.
FeedTable(n) ==
    { [ product_id |-> "p1", revision_number |-> i, editor_id |-> "u1",
        edit_summary |-> "rename", product_data |-> JSONMarshal(CreatedRow),
        created_at |-> i ] : i \in 1..n }

\* The table sizes the feed is read from: around the default and the
\* maximum limit.
FeedSizes == {0, 3, DefaultLimit + 1, MaxLimit - 1, MaxLimit, MaxLimit + 1,
              MaxLimit + DefaultLimit}

InitFeed ==
    /\ \E n \in FeedSizes :
          /\ product_revisions = FeedTable(n)
          /\ products = SetRow(<< >>, "p1",
                               [CreatedRow EXCEPT !.CurrentRevisionNumber =
                                                     IF n = 0 THEN 1 ELSE n])
    /\ product_field_changes = {}
    /\ pending_edits = << >>
    /\ pc = [p \in Procs |-> "idle"]
    /\ local = [p \in Procs |-> NoLocal]
    /\ response = NoResponse
    /\ openTx = 0
    /\ calls = 0
    /\ diffIn = << PA, PA >>
    /\ diffOut = NoDiff
    /\ upvotes = {}

\* GET /api/admin/recent-edits: Handler.GetRecentEdits and the one query
\* of PostgresRepository.GetRecentEdits.
GetRecentEdits(p, limitStr) ==
    /\ CanStart(p)
    /\ calls' = calls + 1
    /\ \E limit \in {ParseLimit(limitStr)} :
       \E ordered \in {OrderByCreatedDesc(product_revisions)} :
       \E rows \in {LimitOffset(ordered, limit, 0)} :
          LET edits == [ i \in 1..Len(rows) |->
                           [ ProductID |-> rows[i].product_id,
                             CreatedAt |-> rows[i].created_at ]
                           @@ RevisionSummary(rows[i], product_field_changes) ]
          IN  /\ pc' = pc
              /\ local' = local
              /\ response' = ReadResponse(p, "GetRecentEdits", limitStr, "",
                                [ edits |-> edits, count |-> Len(edits),
                                  limit |-> limit ])
    /\ UNCHANGED << db, openTx, diff, upvotes >>

NextFeed == \E limitStr \in LimitParams : GetRecentEdits(Reader, limitStr)

SpecFeed == InitFeed /\ [][NextFeed]_vars

\* ------------------------------------------------------------ C23

\* C23: whatever limit the caller requests (none, not a number, zero,
\* negative, arbitrarily large), the recent-edits feed returns at most 200
\* entries, newest first by creation time.
C23_FeedIsCappedAndNewestFirst ==
    response.op = "GetRecentEdits" =>
       /\ response.err = ""
       /\ Len(response.result.edits) <= 200
       /\ \A i \in 1..(Len(response.result.edits) - 1) :
             response.result.edits[i].CreatedAt
                >= response.result.edits[i + 1].CreatedAt
       /\ \A i \in 1..Len(response.result.edits) :
             \E r \in product_revisions :
                /\ r.product_id = response.result.edits[i].ProductID
                /\ r.revision_number = response.result.edits[i].RevisionNumber
                /\ r.created_at = response.result.edits[i].CreatedAt

\* A request for 10000000000 entries on a table of 250 rows.
C23_Witness ==
    /\ response.op = "GetRecentEdits"
    /\ Len(response.key) = 11
    /\ Cardinality(product_revisions) = 250
    /\ Len(response.result.edits) = 50
    /\ response.result.edits[1].CreatedAt = 250

\* ------------------------------------------------------------ C24

\* middleware.AdminOnly: the caller is the admin when the wallet address of
\* its token is the configured admin wallet. Users u1 and u2 hold wallets
\* of their own.
AdminWallet == "0xadmin"
WalletOf(user) == IF user = "admin" THEN AdminWallet ELSE "0x" \o user
IsAdmin(user) == WalletOf(user) = AdminWallet

\* The goroutine that takes this step, and the operation it is serving.
Acting(p) == pc'[p] # pc[p] \/ (response'.op # "none" /\ response'.proc = p)
ActingOp(p) == IF response'.op # "none" THEN response'.op ELSE local'[p].op

\* In this step product id comes to be stored with approved = true.
BecomesApproved(id) ==
    /\ id \in DOMAIN products'
    /\ products'[id].Approved
    /\ (id \in DOMAIN products => ~products[id].Approved)

\* In this step the stored content of the approved product id changes.
ApprovedContentChanges(id) ==
    /\ id \in DOMAIN products /\ id \in DOMAIN products'
    /\ products[id].Approved
    /\ VersionedFields(products'[id]) # VersionedFields(products[id])

\* C24: a SubmitProduct or UpdateProduct request of a user who is not the
\* admin never stores a product with approved = true that was not approved
\* before, and never changes the stored content of an approved product.
C24_NonAdminWritesNeedApproval ==
    [][ \A p \in Procs :
          ( /\ Acting(p)
            /\ ActingOp(p) \in {"CreateProduct", "UpdateProduct"}
            /\ ~IsAdmin(UserOf(p)) )
          => \A id \in ProductIDs :
                ~BecomesApproved(id) /\ ~ApprovedContentChanges(id)
      ]_vars

\* ------------------------------------------------------------ C25

Users == {"u1", "u2"}

\* The upvotes rows of (userID, productID).
UpvotesOf(rows, userID, productID) ==
    {u \in rows : u.user_id = userID /\ u.product_id = productID}

\* UpvoteProduct, first statement: SELECT COUNT(*) of the user's upvotes of
\* the product; count > 0 is returned as "already upvoted" (the handler
\* answers 409). The request's sequence number stands for the id that
\* generateID gives its row.
UpvoteProductCount(p, userID, productID) ==
    /\ CanStart(p)
    /\ calls' = calls + 1
    /\ IF Cardinality(UpvotesOf(upvotes, userID, productID)) > 0
       THEN Return(p, "UpvoteProduct", <<userID, productID>>,
                   "already upvoted", FALSE)
       ELSE Goto(p, "upv_insert",
                 [ op |-> "UpvoteProduct", userID |-> userID,
                   productID |-> productID, upvoteID |-> calls' ])
    /\ UNCHANGED << db, openTx, diff, upvotes >>

\* UpvoteProduct, second statement: INSERT INTO upvotes, which fails on
\* UNIQUE (user_id, product_id) and on the foreign key to products; the
\* error is returned as "failed to add upvote" (the handler answers 500).
UpvoteProductInsert(p) ==
    /\ pc[p] = "upv_insert"
    /\ LET l == local[p]
       IN  IF \/ UpvotesOf(upvotes, l.userID, l.productID) # {}
              \/ l.productID \notin DOMAIN products
           THEN /\ Return(p, l.op, <<l.userID, l.productID>>,
                          "failed to add upvote", FALSE)
                /\ UNCHANGED upvotes
           ELSE /\ upvotes' = upvotes \cup
                      { [ id |-> l.upvoteID, user_id |-> l.userID,
                          product_id |-> l.productID ] }
                /\ Return(p, l.op, <<l.userID, l.productID>>, "", TRUE)
    /\ UNCHANGED << db, openTx, calls, diff >>

\* Upvote requests served concurrently, on a database that holds p1.
NextUpvotes ==
    \E p \in Procs :
       \/ \E userID \in Users, productID \in ProductIDs :
             UpvoteProductCount(p, userID, productID)
       \/ UpvoteProductInsert(p)

SpecUpvotes == InitCreated /\ [][NextUpvotes]_vars

\* ------------------------------------------------------------ C26

\* C26: in every reachable state there is at most one upvote row per
\* (user, product), and an UpvoteProduct request that returns while the
\* pair has a row returns "already upvoted" and adds no row.
C26_OneUpvoteAndConflictReported ==
    /\ [](\A userID \in Users, productID \in ProductIDs :
             Cardinality(UpvotesOf(upvotes, userID, productID)) <= 1)
    /\ [][ ( /\ response'.op = "UpvoteProduct"
             /\ UpvotesOf(upvotes, response'.key[1], response'.key[2]) # {} )
           => /\ response'.err = "already upvoted"
              /\ upvotes' = upvotes
         ]_vars

\* ----------------------------------------------- writes to two products

\* The tables after p1 was created from PA by u1 and p2 from PC by u2.
CreatedRow2 ==
    InsertedProductRow([PC EXCEPT !.ID = "p2", !.SubmitterID = "u2",
                                  !.CurrentRevisionNumber = 1])

InitTwoProducts ==
    /\ products = SetRow(SetRow(<< >>, "p1", CreatedRow), "p2", CreatedRow2)
    /\ product_revisions =
          { RevisionRow("p1", 1, "u1", "Initial product version", CreatedRow),
            RevisionRow("p2", 1, "u2", "Initial product version", CreatedRow2) }
    /\ product_field_changes = {}
    /\ pending_edits = EditCatalog
    /\ pc = [p \in Procs |-> "idle"]
    /\ local = [p \in Procs |-> NoLocal]
    /\ response = NoResponse
    /\ openTx = 0
    /\ calls = 0
    /\ diffIn = << PA, PA >>
    /\ diffOut = NoDiff
    /\ upvotes = {}

\* The product each goroutine serves write requests for.
ProductOf(p) == IF p = "t1" THEN "p1" ELSE "p2"

\* Writes to p1 served by t1 concurrently with writes to p2 served by t2:
\* Service.UpdateProduct, RevertProductToRevision, and ApproveEdit of the
\* pending update of p1.
NextTwoProducts ==
    \E p \in Procs :
       \/ \E payload \in Payloads, s \in EditSummaries :
             UpdateProductGet(p, ProductOf(p), payload, s)
       \/ CreateProductRevisionSelect(p)
       \/ CreateProductRevisionWrite(p)
       \/ UpdateProductFinal(p)
       \/ \E n \in 1..MaxRevertTarget, reason \in RevertReasons :
             RevertGetRevision(p, ProductOf(p), n, reason)
       \/ RevertGetProduct(p)
       \/ \E e \in {x \in EditIDs : /\ EditCatalog[x].entity_id = ProductOf(p)
                                   /\ EditCatalog[x].change_type = "update"} :
             ApproveEditSelect(p, e)
       \/ ApproveEditRead(p)
       \/ ApproveEditUpdate(p)

SpecTwoProducts == InitTwoProducts /\ [][NextTwoProducts]_vars

\* ------------------------------------------------------------ C27

\* The product a request in progress writes to.
RequestProduct(l) == IF l.op = "ApproveEdit" THEN l.edit.entity_id ELSE l.productID

\* The stored state of product id: its row, revisions and field changes.
StoredState(id) ==
    [ row       |-> IF id \in DOMAIN products THEN << products[id] >> ELSE << >>,
      revisions |-> RevisionsOf(product_revisions, id),
      changes   |-> {c \in product_field_changes : c.revision_id[1] = id} ]

\* C27: every step of a Service.UpdateProduct, RevertProductToRevision or
\* ApproveEdit on product A leaves the row, revisions and field changes of
\* every other product B unchanged; and when the writes to A run
\* concurrently with the writes to B, none of them is refused with a
\* revision conflict, and each product is left as by its own writes alone:
\* its revisions numbered 1..N with N its current revision number whenever
\* no write to it is in progress.
C27_WritesToOtherProductsIndependent ==
    /\ [][ \A p \in Procs :
             ( /\ Acting(p)
               /\ ActingOp(p) \in {"UpdateProduct", "Revert", "ApproveEdit"} )
             => /\ \A B \in ProductIDs :
                      ( \/ (local[p].op # "none" /\ RequestProduct(local[p]) # B)
                        \/ (local'[p].op # "none" /\ RequestProduct(local'[p]) # B)
                        \/ (local[p].op = "none" /\ local'[p].op = "none") )
                        => StoredState(B)' = StoredState(B)
                /\ (response'.op # "none"
                      => response'.err # "failed to create revision")
         ]_vars
    /\ [](\A p \in Procs :
             pc[p] = "idle" =>
                /\ RevisionNumbers(ProductOf(p))
                     = 1..products[ProductOf(p)].CurrentRevisionNumber)

\* While t1's update of p1 is in progress, having written revision 2 of p1,
\* t2's write to p2 has written revision 2 of p2 and returned.
C27_Witness ==
    /\ pc["t1"] = "upd_final"
    /\ local["t1"].productID = "p1"
    /\ RevisionNumbers("p1") = {1, 2}
    /\ response.op \in {"UpdateProduct", "Revert"}
    /\ response.proc = "t2"
    /\ response.err = ""
    /\ response.wrote
    /\ RevisionNumbers("p2") = {1, 2}

\* ------------------------------------------------------------ C28

\* C28: for every revision n > 1 whose predecessor n - 1 is stored, every
\* field change stored with revision n has as old value the value of that
\* field in the snapshot of revision n - 1.
C28_ChangesAgainstPreviousRevision ==
    \A r \in product_revisions :
       (r.revision_number > 1
          /\ RevisionAt(product_revisions, r.product_id, r.revision_number - 1) # {})
       => \A c \in FieldChangesOf(product_field_changes, r.product_id,
                                  r.revision_number) :
             c.old_value =
                FieldValues(SnapshotOf(r.product_id, r.revision_number - 1))[c.field_name]

\* ------------------------------------------------------------ C29

\* The write of goroutine p loses a race for its product: the revision
\* number it is about to insert was taken by a concurrent writer.
LosesRace(p) ==
    /\ pc[p] = "cpr_write"
    /\ local[p].productID \in DOMAIN products
    /\ ~RevisionKeyFree(product_revisions, local[p].productID, local[p].newRevision)

\* C29: a write whose attempt to append its revision conflicts with a
\* concurrent writer does not return a failure at that attempt: it goes on
\* to try again against the new current state.
C29_ConflictIsRetried ==
    [][ \A p \in Procs :
          ( /\ LosesRace(p) /\ pc'[p] # pc[p]
            /\ (response'.op = "none" \/ response'.err # "storage error") )
          => /\ pc'[p] # "idle"
             /\ response'.op = "none"
      ]_vars

\* ------------------------------------------------------------ C30

\* The keys of the revisions and field changes stored before or after a step.
RevisionKeysOfStep ==
    { <<r.product_id, r.revision_number>> :
         r \in product_revisions \cup product_revisions' }
       \cup { c.revision_id : c \in product_field_changes \cup product_field_changes' }

\* C30: in every reachable state, also after a write that failed part-way,
\* every product_field_changes row references a stored revision; and the
\* field changes of a revision become visible only in the step in which
\* the revision itself does, all of them together, and are removed only
\* with it.
C30_FieldChangesWithTheirRevision ==
    /\ [](\A c \in product_field_changes :
             \E r \in product_revisions :
                c.revision_id = <<r.product_id, r.revision_number>>)
    /\ [][ \A k \in RevisionKeysOfStep :
             LET before == FieldChangesOf(product_field_changes, k[1], k[2])
                 after  == FieldChangesOf(product_field_changes', k[1], k[2])
                 had    == RevisionAt(product_revisions, k[1], k[2]) # {}
                 has    == RevisionAt(product_revisions', k[1], k[2]) # {}
             IN  /\ (after # before /\ after # {}) => (~had /\ has /\ before = {})
                 /\ (after # before /\ after = {}) => ~has
                 /\ \A p \in Procs :
                       ( /\ ~had /\ has
                         /\ pc[p] = "cpr_write" /\ pc'[p] # pc[p] )
                       => { FieldChange(c.field_name, c.old_value,
                                        c.new_value, c.change_type) : c \in after }
                            = { local[p].changes[i] :
                                  i \in 1..Len(local[p].changes) }
         ]_vars

\* A request has failed in the database while revisions with field changes
\* are stored and no transaction is left open.
C30_Witness ==
    /\ response.op \in {"UpdateProduct", "Revert"}
    /\ response.err = "storage error"
    /\ ~response.wrote
    /\ product_field_changes # {}
    /\ openTx = 0

\* ------------------------------------------------------------ C31

\* The field names in the order calculateProductDifferences compares them.
FieldOrder ==
    << "title", "short_desc", "long_desc", "logo_url", "markdown_content",
       "security_score", "ux_score", "decent_score", "vibes_score",
       "is_verified", "approved", "analytics_list" >>
FieldRank(name) == CHOOSE i \in 1..Len(FieldOrder) : FieldOrder[i] = name

\* The changes name fields of FieldOrder, each later in it than the one before.
InFieldOrder(changes) ==
    /\ \A i \in 1..Len(changes) :
          \E k \in 1..Len(FieldOrder) : FieldOrder[k] = changes[i].FieldName
    /\ \A i \in 1..(Len(changes) - 1) :
          FieldRank(changes[i].FieldName) < FieldRank(changes[i + 1].FieldName)

\* C31: the changes the diff returns come in one fixed order of the field
\* names, whatever the two snapshots are: two field names that both appear
\* are in the same relative order in every result; and the diff of the same
\* two snapshots is the same sequence every time.
C31_DiffOrderByFieldName ==
    diffOut.op = "diff" =>
       /\ InFieldOrder(diffOut.forward)
       /\ InFieldOrder(diffOut.backward)
       /\ diffOut.forward = calculateProductDifferences(diffIn[1], diffIn[2])

\* A diff of four changes, a removal first and a modification second.
C31_Witness ==
    /\ diffOut.op = "diff"
    /\ Len(diffOut.forward) = 4
    /\ diffOut.forward[1].ChangeType = "removed"
    /\ diffOut.forward[2].ChangeType = "modified"

\* --------------------------------------------------------- moderation

\* ApproveEdit and RejectEdit requests served concurrently, on a database
\* that holds product p1 and the pending edits.
NextEdits ==
    \E p \in Procs :
       \/ \E e \in EditIDs : ApproveEditSelect(p, e)
       \/ ApproveEditCreate(p)
       \/ ApproveEditRead(p)
       \/ ApproveEditUpdate(p)
       \/ \E e \in EditIDs : RejectEdit(p, e)

SpecEdits == InitCreated /\ [][NextEdits]_vars

\* ------------------------------------------------------------ C32

\* C32: an ApproveEdit request that finds the edit's status other than
\* 'pending' returns an error and changes no product row, revision, field
\* change or edit.
C32_ProcessedEditRefused ==
    [][ \A p \in Procs, e \in EditIDs :
          ( /\ pc[p] = "idle" /\ Acting(p) /\ ActingOp(p) = "ApproveEdit"
            /\ (IF response'.op # "none" THEN response'.key
                                         ELSE local'[p].editID) = e
            /\ e \in DOMAIN pending_edits
            /\ pending_edits[e].status # "pending" )
          => /\ response'.op = "ApproveEdit"
             /\ response'.err # ""
             /\ ~response'.wrote
             /\ UNCHANGED db
      ]_vars

\* ApproveEdit of an edit that was rejected has been refused.
C32_Witness ==
    /\ response.op = "ApproveEdit"
    /\ response.err = "edit is already rejected"
    /\ pending_edits[response.key].status = "rejected"

\* ------------------------------------------------------------ C33

\* C33: once an edit's status is 'rejected' it stays 'rejected', and no
\* ApproveEdit of it writes to the product or the revision log.
C33_RejectedIsFinal ==
    [][ \A e \in DOMAIN pending_edits :
          pending_edits[e].status = "rejected"
          => /\ e \in DOMAIN pending_edits' => pending_edits'[e].status = "rejected"
             /\ (response'.op = "ApproveEdit" /\ response'.key = e)
                   => /\ ~response'.wrote
                      /\ UNCHANGED << products, product_revisions,
                                      product_field_changes >>
      ]_vars

\* ------------------------------------------------------------ C34

\* The revisions the ApproveEdit that goroutine p serves appends in this step.
RevisionsAppendedBy(p) ==
    IF /\ pc[p] = "apr_update" /\ pc'[p] = "idle"
       /\ response'.op = "ApproveEdit" /\ response'.wrote
    THEN product_revisions' \ product_revisions
    ELSE {}

\* C34: two ApproveEdit calls for the same product-update edit append at
\* most one revision between them: an ApproveEdit of an edit whose status
\* is already 'approved' appends none.
C34_EditAppliedAtMostOnce ==
    [][ \A p \in Procs :
          ( /\ pc[p] = "apr_update"
            /\ local[p].editID \in DOMAIN pending_edits
            /\ pending_edits[local[p].editID].status = "approved" )
          => RevisionsAppendedBy(p) = {}
      ]_vars

\* ------------------------------------------------------------ C35

\* The goroutines whose request is inside a transaction.
InTransaction ==
    {p \in Procs : pc[p] \in {"cpr_write", "apr_create", "apr_read", "apr_update"}}

\* C35: every transaction a repository write began is committed or rolled
\* back when the call returns: the open transactions are those of the
\* requests still inside one.
C35_NoTransactionLeftOpen ==
    openTx = Cardinality(InTransaction)

\* ------------------------------------------------------------ C36

\* C36: in every reachable state, the last_editor_id of every product that
\* has revisions is the editor_id of its highest-numbered revision.
C36_LastEditorIsLatestRevisionEditor ==
    \A id \in DOMAIN products :
       RevisionNumbers(id) # {}
       => products[id].LastEditorID =
             (CHOOSE r \in RevisionAt(product_revisions, id,
                                      Max(RevisionNumbers(id))) : TRUE).editor_id

\* ------------------------------------------------------------ C37

\* C37: for every pair of products, calculateProductChanges and
\* calculateProductDifferences return changes of the same fields with the
\* same old values, new values and change types.
C37_DiffImplementationsAgree ==
    diffOut.op = "diff" =>
       { diffOut.service[i] : i \in 1..Len(diffOut.service) }
          = { diffOut.forward[i] : i \in 1..Len(diffOut.forward) }

\* ------------------------------------------------------------ C38

\* strings.ToLower on the characters a wallet address is written with:
\* the hexadecimal letters in either case, and digits.
WalletChars == {"1", "a", "A", "b", "B"}
ToLowerChar(c) == CASE c = "A" -> "a" [] c = "B" -> "b" [] OTHER -> c
ToLower(s) == [i \in 1..Len(s) |-> ToLowerChar(s[i])]

\* Wallet addresses, written as the characters after "0x" and shortened to
\* two. AuthenticateWallet puts the address in the token as the caller
\* sent it, and LoadConfig takes ADMIN_WALLET_ADDRESS as it is set.
Wallets == { << c, d >> : c \in WalletChars, d \in WalletChars }

\* Service.IsUserAdmin.
IsUserAdmin(walletAddress, adminWallet) ==
    ToLower(walletAddress) = ToLower(adminWallet)

\* middleware.AdminOnly behind a valid token: the status it answers with
\* before the handler runs, or 200 when it calls the handler.
AdminOnlyStatus(walletAddress, adminWallet) ==
    IF walletAddress # adminWallet THEN 403 ELSE 200

InitAdmin ==
    /\ products = << >>
    /\ product_revisions = {}
    /\ product_field_changes = {}
    /\ pending_edits = << >>
    /\ pc = [p \in Procs |-> "idle"]
    /\ local = [p \in Procs |-> NoLocal]
    /\ response = NoResponse
    /\ openTx = 0
    /\ calls = 0
    /\ diffIn \in Wallets \X Wallets
    /\ diffOut = NoDiff
    /\ upvotes = {}

\* GET /api/user/permissions by a caller whose token wallet is diffIn[1],
\* the configured admin wallet being diffIn[2].
GetUserPermissions ==
    /\ diffOut = NoDiff
    /\ \E isAdmin \in {IsUserAdmin(diffIn[1], diffIn[2])} :
          diffOut' = [ op |-> "permissions",
                       is_admin |-> isAdmin, is_curator |-> isAdmin ]
    /\ UNCHANGED << db, pc, local, response, openTx, calls, diffIn, upvotes >>

\* A request of the same caller to a route behind AdminOnly.
AdminRoute ==
    /\ diffOut = NoDiff
    /\ diffOut' = [ op |-> "admin_route",
                    status |-> AdminOnlyStatus(diffIn[1], diffIn[2]) ]
    /\ UNCHANGED << db, pc, local, response, openTx, calls, diffIn, upvotes >>

NextAdmin == GetUserPermissions \/ AdminRoute

SpecAdmin == InitAdmin /\ [][NextAdmin]_vars

\* C38: for every wallet address, the permissions answer says is_admin and
\* is_curator exactly when AdminOnly admits a caller with that wallet.
C38_AdminChecksAgree ==
    /\ diffOut.op = "permissions"
       => /\ diffOut.is_admin = (AdminOnlyStatus(diffIn[1], diffIn[2]) = 200)
          /\ diffOut.is_curator = diffOut.is_admin
    /\ diffOut.op = "admin_route"
       => (diffOut.status = 200) = IsUserAdmin(diffIn[1], diffIn[2])

====
